---- MODULE Spec2Model ----
(***************************************************************************)
(* LorenzPred.ipynb as a state machine: one kernel session, its cells run  *)
(* top to bottom ("Run All"), then once more from the dataset cell down.   *)
(*                                                                         *)
(* Numbers are exact rationals <<numerator, denominator>>; the rounding of *)
(* each floating-point operation is not modelled.  The three external      *)
(* collaborators are modelled by what the notebook observes of them:       *)
(*   solve_ivp  evaluates the vector field it is handed at the points it   *)
(*              visits and returns status and one column of y per          *)
(*              evaluation time it reached; the values of the columns are  *)
(*              those of a fixed sample-to-sample map (flow), its failure  *)
(*              point is free;                                             *)
(*   train_test_split draws one permutation from a generator made from     *)
(*              random_state; the generator's output stream (mt) is fixed  *)
(*              but arbitrary;                                             *)
(*   keras      fit marks a model trained, predict maps row j of its input *)
(*              to row j of its output, the trained function itself is     *)
(*              uninterpreted.                                             *)
(***************************************************************************)
EXTENDS Integers, Sequences, FiniteSets, TLC

\* Evaluation times of the dataset cell's grid (1000 in the notebook).
MaxEval == 7

\* Evaluation times of the two plotting cells' grids (10000 in the notebook).
PlotEval == 1

\* num of np.linspace(*t_span, 1000) in the dataset cell.
NumEval == 1000

\* units of the Dense output layer of both models.
DenseUnits == 3

\* units of the LSTM layer.
LstmUnits == 50

(***************************************************************************)
(* Rational arithmetic                                                     *)
(***************************************************************************)
Abs(n) == IF n < 0 THEN 0 - n ELSE n

RECURSIVE GCD(_, _)
GCD(a, b) == IF b = 0 THEN a ELSE GCD(b, a % b)

LCM(a, b) == (a \div GCD(a, b)) * b

Norm(n, d) ==
    LET g == GCD(Abs(n), d)
    IN  IF n = 0 THEN <<0, 1>> ELSE <<n \div g, d \div g>>

R(n) == <<n, 1>>

Frac(n, d) == Norm(n, d)

RAdd(a, b) ==
    LET l == LCM(a[2], b[2])
    IN  Norm(a[1] * (l \div a[2]) + b[1] * (l \div b[2]), l)

RNeg(a) == <<0 - a[1], a[2]>>

RSub(a, b) == RAdd(a, RNeg(b))

RMul(a, b) ==
    LET g1 == GCD(Abs(a[1]), b[2])
        g2 == GCD(Abs(b[1]), a[2])
    IN  IF a[1] = 0 \/ b[1] = 0 THEN <<0, 1>>
        ELSE <<(a[1] \div g1) * (b[1] \div g2), (a[2] \div g2) * (b[2] \div g1)>>

RDivInt(a, k) == Norm(a[1], a[2] * k)

\* math.ceil of a rational
Ceil(a) == IF a[1] % a[2] = 0 THEN a[1] \div a[2] ELSE (a[1] \div a[2]) + 1

(***************************************************************************)
(* numpy helpers                                                           *)
(***************************************************************************)
\* np.linspace(a, b, num): num evenly spaced points, both ends included.
linspace(a, b, num) ==
    [i \in 1..num |->
        IF num = 1 THEN a
        ELSE RAdd(a, RDivInt(RMul(R(i - 1), RSub(b, a)), num - 1))]

\* a[:-1]
AllButLast(a) == IF Len(a) = 0 THEN <<>> ELSE SubSeq(a, 1, Len(a) - 1)

\* The labels taken without the shift by one: a[:-1] where a[1:] is meant.
AllButFirst_unshifted(a) == AllButLast(a)

\* a[1:]
AllButFirst(a) == IF Len(a) = 0 THEN <<>> ELSE SubSeq(a, 2, Len(a))

\* a[ind] for an index array ind (0-based indices, as numpy's)
Take(a, ind) == [j \in 1..Len(ind) |-> a[ind[j] + 1]]

\* y.T for y of shape (3, k): k rows of 3 components
Transpose(y) == [i \in 1..Len(y[1]) |-> <<y[1][i], y[2][i], y[3][i]>>]

\* a[:, d] for a of shape (k, 3)
Column(a, d) == [i \in 1..Len(a) |-> a[i][d]]

\* a.reshape(a.shape[0], 1, a.shape[1]): every row becomes a window of one step
ReshapeSteps(a) == [i \in 1..Len(a) |-> <<a[i]>>]

(***************************************************************************)
(* The vector field                                                        *)
(***************************************************************************)
\* sigma, beta, rho = 10.0, 8.0 / 3.0, 28.0   (first and second cell)
ParamsPlot == [sigma |-> R(10), beta |-> Frac(8, 3), rho |-> R(28)]

\* sigma, beta, rho = 10, 2.667, 28           (dataset cell)
ParamsDataset == [sigma |-> R(10), beta |-> Frac(2667, 1000), rho |-> R(28)]

\* initial_state = [1.0, 1.0, 1.0], initial_condition_A
StateA == <<R(1), R(1), R(1)>>

\* initial_condition_B = [1.0, 1.0, 1.0001]
StateB == <<R(1), R(1), Frac(10001, 10000)>>

\* initial_state = [0, 1, 1.05]
State0 == <<R(0), R(1), Frac(21, 20)>>

\* The states a trajectory visits in the model.
StateSet == {State0, StateA, StateB}

\* lorenz_system keeping a tally in a global it rebinds: `global beta`.
lorenz_system_impure(t, state, sigma, beta, rho, g) ==
    LET x == state[1]
        y == state[2]
        z == state[3]
        dxdt == RMul(sigma, RSub(y, x))
        dydt == RSub(RMul(x, RSub(rho, z)), y)
        dzdt == RSub(RMul(x, y), RMul(beta, z))
    IN  [ret |-> <<dxdt, dydt, dzdt>>,
         globals |-> [g EXCEPT !.beta = RAdd(g.beta, R(1))]]

\* def lorenz_system(t, state, sigma, beta, rho): the value returned and the
\* session's globals g after the call.
lorenz_system(t, state, sigma, beta, rho, g) ==
    LET x == state[1]
        y == state[2]
        z == state[3]
        dxdt == RMul(sigma, RSub(y, x))
        dydt == RSub(RMul(x, RSub(rho, z)), y)
        dzdt == RSub(RMul(x, y), RMul(beta, z))
    IN  [ret |-> <<dxdt, dydt, dzdt>>, globals |-> g]

\* lorenz with the sign of the damping term of dy/dt flipped.
lorenz_sign(t, state, g) ==
    LET x == state[1]
        y == state[2]
        z == state[3]
        dxdt == RMul(g.sigma, RSub(y, x))
        dydt == RAdd(RMul(x, RSub(g.rho, z)), y)
        dzdt == RSub(RMul(x, y), RMul(g.beta, z))
    IN  [ret |-> <<dxdt, dydt, dzdt>>, globals |-> g]

\* def lorenz(t, state): sigma, beta, rho are read from the session's globals g.
lorenz(t, state, g) ==
    LET x == state[1]
        y == state[2]
        z == state[3]
        dxdt == RMul(g.sigma, RSub(y, x))
        dydt == RSub(RMul(x, RSub(g.rho, z)), y)
        dzdt == RSub(RMul(x, y), RMul(g.beta, z))
    IN  [ret |-> <<dxdt, dydt, dzdt>>, globals |-> g]

(***************************************************************************)
(* The session                                                             *)
(***************************************************************************)
VARIABLES
    pc,                     \* the statement the kernel executes next
    error,                  \* the exception that ended the run, or "none"
    reexecuted,             \* the dataset cell and the cells below it were run again
    stages,                 \* pipeline stages completed by the current run, in order
    names,                  \* names bound in the session
    params,                 \* sigma, beta, rho
    initial_state,
    t_span,
    t_eval,
    initial_condition_A,
    initial_condition_B,
    solver,                 \* the solve_ivp call in progress
    solution,
    solution_A,
    solution_B,
    evalLog,                \* every evaluation of a vector field so far
    data,
    X_all,                  \* the arrays handed to train_test_split
    y_all,
    X_train,
    X_test,
    y_train,
    y_test,
    ind_train,              \* the index arrays train_test_split drew
    ind_test,
    np_random,              \* numpy's global generator
    prev_split,             \* what the previous execution of the split returned
    baseline_model,
    lstm_model,
    baseline_predictions,
    lstm_predictions,
    figure,                 \* the panels of the comparison figure
    shown,                  \* figures shown so far
    flow,                   \* solve_ivp's sample-to-sample map
    reached,                \* per call site: the columns its last call returned
    mt                      \* the output stream of RandomState(42)

ctl == <<pc, error, reexecuted, stages>>
cfg == <<names, params, initial_state, t_span, t_eval, initial_condition_A,
         initial_condition_B>>
ode == <<solver, solution, solution_A, solution_B, evalLog>>
ds  == <<data, X_all, y_all, X_train, X_test, y_train, y_test, ind_train,
         ind_test, np_random, prev_split>>
ml  == <<baseline_model, lstm_model, baseline_predictions, lstm_predictions,
         figure, shown>>
env == <<flow, mt>>
vars == <<ctl, cfg, ode, ds, ml, env, reached>>

\* The statements of the notebook in the order "Run All" executes them.
Program ==
    << "c1_params", "c1_def", "c1_solve", "c1_plot",
       "c2_params", "c2_def", "c2_ic", "c2_solveA", "c2_solveB", "c2_plot",
       "c4_params", "c4_def", "c4_grid", "c4_solve", "c4_data", "c4_split",
       "c5_baseline", "c5_baseline_fit", "c5_lstm", "c5_lstm_fit",
       "c5_predict_baseline", "c5_predict_lstm",
       "c6_plot", "done" >>

IndexOf(p) == CHOOSE i \in 1..Len(Program) : Program[i] = p

\* The baseline's prediction moved up, before the recurrent model is built
\* and trained.
NextPc_predict_early(p) ==
    CASE p = "c5_baseline_fit"     -> "c5_predict_baseline"
      [] p = "c5_predict_baseline" -> "c5_lstm"
      [] p = "c5_lstm_fit"         -> "c5_predict_lstm"
      [] OTHER                     -> Program[IndexOf(p) + 1]

\* The statement after p.
NextPc(p) == Program[IndexOf(p) + 1]

NoResult == [status |-> 0, success |-> FALSE, y |-> <<>>]

IdleSolver ==
    [phase |-> "idle", fun |-> "none",
     args |-> [sigma |-> R(0), beta |-> R(0), rho |-> R(0)], grid |-> <<>>,
     y |-> State0, cols |-> <<<<>>, <<>>, <<>>>>]

NoModel ==
    [layers |-> <<>>, compiled |-> FALSE, fitted |-> FALSE, fit_rows |-> 0,
     fit_inputs |-> <<>>]

NoSplit ==
    [X_all |-> <<>>, y_all |-> <<>>, X_train |-> <<>>, X_test |-> <<>>,
     y_train |-> <<>>, y_test |-> <<>>, ind_train |-> <<>>, ind_test |-> <<>>]

\* The four calls of solve_ivp.
SolvePcs == {"c1_solve", "c2_solveA", "c2_solveB", "c4_solve"}

Bijections(S) == {f \in [S -> S] : \A a, b \in S : f[a] = f[b] => a = b}

\* The derivative vanishes at s for neither parameter set of the notebook.
Equilibrium(s) ==
    \E p \in {ParamsPlot, ParamsDataset} :
        lorenz(R(0), s, p).ret = <<R(0), R(0), R(0)>>

\* The sample-to-sample maps of an autonomous system on an evenly spaced
\* grid: one-to-one, and a state that is no equilibrium is not mapped to itself.
Flows == {f \in Bijections(StateSet) :
             \A s \in StateSet : f[s] = s => Equilibrium(s)}

\* Length of the modelled prefix of the generator's stream: one draw per
\* swap of the largest shuffle.
StreamLen == MaxEval - 2

RawVals == {0, 1}

Init ==
    /\ pc = "c1_params"
    /\ error = "none"
    /\ reexecuted = FALSE
    /\ stages = <<>>
    /\ names = {}
    /\ params = [sigma |-> R(0), beta |-> R(0), rho |-> R(0)]
    /\ initial_state = State0
    /\ t_span = <<R(0), R(0)>>
    /\ t_eval = <<>>
    /\ initial_condition_A = State0
    /\ initial_condition_B = State0
    /\ solver = IdleSolver
    /\ solution = NoResult
    /\ solution_A = NoResult
    /\ solution_B = NoResult
    /\ evalLog = {}
    /\ data = <<>>
    /\ X_all = <<>>
    /\ y_all = <<>>
    /\ X_train = <<>>
    /\ X_test = <<>>
    /\ y_train = <<>>
    /\ y_test = <<>>
    /\ ind_train = <<>>
    /\ ind_test = <<>>
    /\ np_random = [pos |-> 0]
    /\ prev_split = NoSplit
    /\ baseline_model = NoModel
    /\ lstm_model = NoModel
    /\ baseline_predictions = <<>>
    /\ lstm_predictions = <<>>
    /\ figure = <<>>
    /\ shown = {}
    /\ flow \in Flows
    /\ reached = [p \in SolvePcs |-> 0 - 1]
    /\ mt \in [1..StreamLen -> RawVals]

(***************************************************************************)
(* solve_ivp                                                               *)
(***************************************************************************)
\* The call's arguments at each of the four call sites.
SolveFun(p) == IF p = "c4_solve" THEN "lorenz" ELSE "lorenz_system"

SolveY0(p) ==
    CASE p = "c2_solveA" -> initial_condition_A
      [] p = "c2_solveB" -> initial_condition_B
      [] OTHER           -> initial_state

\* solve_ivp(fun, t_span, y0, t_eval=t_eval, ...) is entered.
SolverStart ==
    /\ pc \in SolvePcs
    /\ solver.phase = "idle"
    /\ solver' = [phase |-> "running", fun |-> SolveFun(pc), args |-> params,
                  grid |-> t_eval, y |-> SolveY0(pc), cols |-> <<<<>>, <<>>, <<>>>>]
    /\ UNCHANGED <<ctl, cfg, solution, solution_A, solution_B, evalLog, ds, ml, env,
                   reached>>

\* fun(t, y, *args) as solve_ivp calls it.
CallFun(t, y) ==
    IF solver.fun = "lorenz_system"
    THEN lorenz_system(t, y, solver.args.sigma, solver.args.beta, solver.args.rho, params)
    ELSE lorenz(t, y, params)

\* The solver evaluates the vector field at its current point and reaches the
\* next evaluation time.
SolverStep ==
    /\ solver.phase = "running"
    /\ Len(solver.cols[1]) < Len(solver.grid)
    /\ reached[pc] # Len(solver.cols[1])
    /\ LET t    == solver.grid[Len(solver.cols[1]) + 1]
           call == CallFun(t, solver.y)
       IN  /\ evalLog' = evalLog \cup
                  {[fn |-> solver.fun, t |-> t, state |-> solver.y,
                    args |-> IF solver.fun = "lorenz_system" THEN solver.args ELSE params,
                    ret |-> call.ret, before |-> params, after |-> call.globals]}
           /\ params' = call.globals
           /\ solver' = [solver EXCEPT
                  !.cols = [d \in 1..3 |-> Append(solver.cols[d], solver.y[d])],
                  !.y = flow[solver.y]]
    /\ UNCHANGED <<ctl, names, initial_state, t_span, t_eval, initial_condition_A,
                   initial_condition_B, solution, solution_A, solution_B, ds, ml, env,
                   reached>>

\* What the call returns: y has one column per evaluation time reached; it is
\* an empty list when none was.
OdeResult(status) ==
    [status |-> status, success |-> (status = 0),
     y |-> IF Len(solver.cols[1]) = 0 THEN <<>> ELSE solver.cols]

Return(res) ==
    /\ solver' = IdleSolver
    /\ solution'   = IF pc \in {"c1_solve", "c4_solve"} THEN res ELSE solution
    /\ solution_A' = IF pc = "c2_solveA" THEN res ELSE solution_A
    /\ solution_B' = IF pc = "c2_solveB" THEN res ELSE solution_B
    /\ names' = names \cup
          {CASE pc = "c2_solveA" -> "solution_A"
             [] pc = "c2_solveB" -> "solution_B"
             [] OTHER            -> "solution"}
    /\ stages' = IF pc = "c4_solve" THEN Append(stages, "integrate") ELSE stages
    /\ reached' = [reached EXCEPT ![pc] = Len(solver.cols[1])]
    /\ pc' = NextPc(pc)
    /\ UNCHANGED <<error, reexecuted, params, initial_state, t_span, t_eval,
                   initial_condition_A, initial_condition_B, evalLog, ds, ml, env>>

\* The integration reached the end of the span: status 0.
SolverFinish ==
    /\ solver.phase = "running"
    /\ Len(solver.cols[1]) = Len(solver.grid)
    /\ Return(OdeResult(0))

\* The step size collapsed: solve_ivp returns status -1 and the columns it has.
\* The solver is deterministic: a call repeated with the same arguments ends
\* where it ended before.
SolverFail ==
    /\ solver.phase = "running"
    /\ Len(solver.cols[1]) < Len(solver.grid)
    /\ reached[pc] \in {0 - 1, Len(solver.cols[1])}
    /\ Return(OdeResult(0 - 1))

(***************************************************************************)
(* train_test_split                                                        *)
(***************************************************************************)
\* test_size=0.2
test_size == Frac(1, 5)

\* The split called without a seed: random_state=None.
random_state_None == [kind |-> "None", seed |-> 0]

\* random_state=42
random_state == [kind |-> "int", seed |-> 42]

\* check_random_state(seed): an int makes a new generator at the start of
\* that seed's stream, None hands out numpy's global generator.
check_random_state(seed) == IF seed.kind = "None" THEN np_random ELSE [pos |-> 0]

\* The generator's next raw draw, mapped into 0..max (rng.randint(max + 1)).
random_interval(max, pos) == mt[(pos % StreamLen) + 1] % (max + 1)

Swap(arr, i, j) == [arr EXCEPT ![i] = arr[j], ![j] = arr[i]]

\* rng.shuffle: for i in reversed(range(1, n)): j = interval(i); swap i and j.
RECURSIVE shuffle(_, _, _)
shuffle(arr, i, pos) ==
    IF i < 1 THEN arr
    ELSE LET j == random_interval(i, pos)
         IN  shuffle(Swap(arr, i + 1, j + 1), i - 1, pos + 1)

\* rng.permutation(n): arange(n), shuffled.
permutation(n, rng) == shuffle([k \in 1..n |-> k - 1], n - 1, rng.pos)

\* The test size rounded down instead of up.
NTest_floor(n_samples) ==
    LET q == RMul(test_size, R(n_samples)) IN q[1] \div q[2]

\* _validate_shuffle_split: n_test = ceil(test_size * n_samples)
NTest(n_samples) == Ceil(RMul(test_size, R(n_samples)))

\* train_size is None: n_train = n_samples - n_test
NTrain(n_samples) == n_samples - NTest(n_samples)

\* ind_test = permutation[:n_test]
TestIndices(perm, n_test) == SubSeq(perm, 1, n_test)

\* The training slice started one position early, so that it shares an index
\* with the test slice.
TrainIndices_overlap(perm, n_test, n_train) ==
    SubSeq(perm, n_test, n_test + n_train - 1)

\* ind_train = permutation[n_test:(n_test + n_train)]
TrainIndices(perm, n_test, n_train) == SubSeq(perm, n_test + 1, n_test + n_train)

\* train_test_split(X, y, test_size=0.2, random_state=42)
train_test_split(X, y) ==
    LET n_samples == Len(X)
        n_test    == NTest(n_samples)
        n_train   == NTrain(n_samples)
        rng       == check_random_state(random_state)
        perm      == permutation(n_samples, rng)
        test      == TestIndices(perm, n_test)
        train     == TrainIndices(perm, n_test, n_train)
    IN  [raised    |-> (n_samples = 0 \/ n_train = 0),
         ind_train |-> train,
         ind_test  |-> test,
         X_train   |-> Take(X, train),
         X_test    |-> Take(X, test),
         y_train   |-> Take(y, train),
         y_test    |-> Take(y, test),
         np_random |-> IF random_state.kind = "None" /\ n_samples > 0
                       THEN [pos |-> rng.pos + n_samples - 1]
                       ELSE np_random]

(***************************************************************************)
(* keras                                                                   *)
(***************************************************************************)
\* Sequential([Dense(3)]), compiled
BaselineLayers == << [type |-> "Dense", units |-> DenseUnits] >>

\* Sequential([LSTM(50, activation=None), Dense(3)]), compiled
LstmLayers == << [type |-> "LSTM", units |-> LstmUnits],
                 [type |-> "Dense", units |-> DenseUnits] >>

\* model.fit(inputs, labels, ...): the model is trained on these rows, fed as
\* they are handed in.
fit(model, inputs, labels) ==
    [model EXCEPT !.fitted = TRUE, !.fit_rows = Len(inputs), !.fit_inputs = inputs]

\* The steps of the windows 1..j, one after the other.
RECURSIVE StepsUpTo(_, _)
StepsUpTo(inputs, j) ==
    IF j = 0 THEN <<>> ELSE StepsUpTo(inputs, j - 1) \o inputs[j]

\* The recurrent state kept from one example to the next: the output for
\* example j is computed from the state left by the examples before it.
RecurrentSteps_carried(inputs, j) == StepsUpTo(inputs, j)

\* LSTM(50, activation=None): stateful is left at its default (False), so the
\* layer starts every example from the zero state and runs over the steps of
\* that example's window; these are the steps that determine the layer's
\* output for example j.
RecurrentSteps(inputs, j) == inputs[j]

\* predict returning its rows in reverse order.
predict_reversed(model, inputs) ==
    [j \in 1..Len(inputs) |->
        [k \in 1..model.layers[Len(model.layers)].units |->
            [model |-> model.layers[1].type, unit |-> k,
             input |-> inputs[Len(inputs) + 1 - j]]]]

\* model.predict(inputs): row j of the output is the model's function applied
\* to row j of the input (for a recurrent model: to the steps its state has
\* run over), one component per unit of the last layer.
predict(model, inputs) ==
    [j \in 1..Len(inputs) |->
        [k \in 1..model.layers[Len(model.layers)].units |->
            [model |-> model.layers[1].type, unit |-> k,
             input |-> IF model.layers[1].type = "LSTM"
                       THEN RecurrentSteps(inputs, j)
                       ELSE inputs[j]]]]

(***************************************************************************)
(* The cells                                                               *)
(***************************************************************************)
Abort(exc) ==
    /\ pc' = "aborted"
    /\ error' = exc

Step == pc' = NextPc(pc) /\ error' = error

Bind(ns) == names' = names \cup ns

\* Cell 1, lines 56-59
Cell1_Params ==
    /\ pc = "c1_params"
    /\ params' = ParamsPlot
    /\ initial_state' = StateA
    /\ t_span' = <<R(0), R(100)>>
    /\ t_eval' = linspace(R(0), R(100), PlotEval)
    /\ Bind({"sigma", "beta", "rho", "initial_state", "t_span", "t_eval"})
    /\ Step
    /\ UNCHANGED <<reexecuted, stages, initial_condition_A, initial_condition_B,
                   ode, ds, ml, env, reached>>

\* Cell 1, lines 62-67
Cell1_Def ==
    /\ pc = "c1_def"
    /\ Bind({"lorenz_system"})
    /\ Step
    /\ UNCHANGED <<reexecuted, stages, params, initial_state, t_span, t_eval,
                   initial_condition_A, initial_condition_B, ode, ds, ml, env, reached>>

\* Cell 1, lines 73-87: solution.y[0], solution.y[1], solution.y[2] are plotted.
Cell1_Plot ==
    /\ pc = "c1_plot"
    /\ IF Len(solution.y) = 0
       THEN Abort("IndexError") /\ UNCHANGED shown
       ELSE Step /\ shown' = shown \cup {"Lorenz Attractor"}
    /\ UNCHANGED <<reexecuted, stages, cfg, ode, ds, baseline_model, lstm_model,
                   baseline_predictions, lstm_predictions, figure, env, reached>>

\* Cell 2, lines 139-141
Cell2_Params ==
    /\ pc = "c2_params"
    /\ params' = ParamsPlot
    /\ t_span' = <<R(0), R(40)>>
    /\ t_eval' = linspace(R(0), R(40), PlotEval)
    /\ Bind({"sigma", "beta", "rho", "t_span", "t_eval"})
    /\ Step
    /\ UNCHANGED <<reexecuted, stages, initial_state, initial_condition_A,
                   initial_condition_B, ode, ds, ml, env, reached>>

\* Cell 2, lines 144-149
Cell2_Def ==
    /\ pc = "c2_def"
    /\ Bind({"lorenz_system"})
    /\ Step
    /\ UNCHANGED <<reexecuted, stages, params, initial_state, t_span, t_eval,
                   initial_condition_A, initial_condition_B, ode, ds, ml, env, reached>>

\* Cell 2, lines 151-152
Cell2_IC ==
    /\ pc = "c2_ic"
    /\ initial_condition_A' = StateA
    /\ initial_condition_B' = StateB
    /\ Bind({"initial_condition_A", "initial_condition_B"})
    /\ Step
    /\ UNCHANGED <<reexecuted, stages, params, initial_state, t_span, t_eval,
                   ode, ds, ml, env, reached>>

\* Cell 2, lines 157-173
Cell2_Plot ==
    /\ pc = "c2_plot"
    /\ IF Len(solution_A.y) = 0 \/ Len(solution_B.y) = 0
       THEN Abort("IndexError") /\ UNCHANGED shown
       ELSE Step /\ shown' = shown \cup {"Comparison of Lorenz System Trajectories"}
    /\ UNCHANGED <<reexecuted, stages, cfg, ode, ds, baseline_model, lstm_model,
                   baseline_predictions, lstm_predictions, figure, env, reached>>

\* Dataset cell, line 220
Cell4_Params ==
    /\ pc = "c4_params"
    /\ params' = ParamsDataset
    /\ Bind({"sigma", "beta", "rho"})
    /\ Step
    /\ UNCHANGED <<reexecuted, stages, initial_state, t_span, t_eval,
                   initial_condition_A, initial_condition_B, ode, ds, ml, env, reached>>

\* Dataset cell, lines 225-236
Cell4_Def ==
    /\ pc = "c4_def"
    /\ Bind({"lorenz"})
    /\ Step
    /\ UNCHANGED <<reexecuted, stages, params, initial_state, t_span, t_eval,
                   initial_condition_A, initial_condition_B, ode, ds, ml, env, reached>>

\* Dataset cell, lines 239-245
Cell4_Grid ==
    /\ pc = "c4_grid"
    /\ initial_state' = State0
    /\ t_span' = <<R(0), R(100)>>
    /\ t_eval' = linspace(R(0), R(100), MaxEval)
    /\ Bind({"initial_state", "t_span", "t_eval"})
    /\ Step
    /\ UNCHANGED <<reexecuted, stages, params, initial_condition_A,
                   initial_condition_B, ode, ds, ml, env, reached>>

\* Dataset cell, line 251: data = solution.y.T
Cell4_Data ==
    /\ pc = "c4_data"
    /\ IF Len(solution.y) = 0
       THEN Abort("AttributeError") /\ UNCHANGED <<data, names>>
       ELSE Step /\ data' = Transpose(solution.y) /\ Bind({"data"})
    /\ UNCHANGED <<reexecuted, stages, params, initial_state, t_span, t_eval,
                   initial_condition_A, initial_condition_B, ode, X_all, y_all,
                   X_train, X_test, y_train, y_test, ind_train, ind_test,
                   np_random, prev_split, ml, env, reached>>

CurrentSplit ==
    [X_all |-> X_all, y_all |-> y_all, X_train |-> X_train, X_test |-> X_test,
     y_train |-> y_train, y_test |-> y_test, ind_train |-> ind_train,
     ind_test |-> ind_test]

\* Dataset cell, line 253: the two slices of data are made, then handed to
\* train_test_split, which raises ValueError when a subset would be empty.
Cell4_Split ==
    /\ pc = "c4_split"
    /\ X_all' = AllButLast(data)
    /\ y_all' = AllButFirst(data)
    /\ LET r == train_test_split(AllButLast(data), AllButFirst(data))
       IN  IF r.raised
           THEN /\ Abort("ValueError")
                /\ UNCHANGED <<stages, names, X_train, X_test, y_train,
                               y_test, ind_train, ind_test, np_random, prev_split>>
           ELSE /\ Step
                /\ X_train' = r.X_train
                /\ X_test' = r.X_test
                /\ y_train' = r.y_train
                /\ y_test' = r.y_test
                /\ ind_train' = r.ind_train
                /\ ind_test' = r.ind_test
                /\ np_random' = r.np_random
                /\ prev_split' = CurrentSplit
                /\ Bind({"X_train", "X_test", "y_train", "y_test"})
                /\ stages' = Append(stages, "build")
    /\ UNCHANGED <<reexecuted, params, initial_state, t_span, t_eval,
                   initial_condition_A, initial_condition_B, ode, data, ml, env, reached>>

\* Training cell, lines 305-308
Cell5_Baseline ==
    /\ pc = "c5_baseline"
    /\ baseline_model' = [layers |-> BaselineLayers, compiled |-> TRUE,
                          fitted |-> FALSE, fit_rows |-> 0, fit_inputs |-> <<>>]
    /\ Bind({"baseline_model"})
    /\ Step
    /\ UNCHANGED <<reexecuted, stages, params, initial_state, t_span, t_eval,
                   initial_condition_A, initial_condition_B, ode, ds, lstm_model,
                   baseline_predictions, lstm_predictions, figure, shown, env, reached>>

\* Training cell, line 309
Cell5_BaselineFit ==
    /\ pc = "c5_baseline_fit"
    /\ baseline_model' = fit(baseline_model, X_train, y_train)
    /\ stages' = Append(stages, "train_baseline")
    /\ Step
    /\ UNCHANGED <<reexecuted, cfg, ode, ds, lstm_model, baseline_predictions,
                   lstm_predictions, figure, shown, env, reached>>

\* Training cell, lines 312-316
Cell5_Lstm ==
    /\ pc = "c5_lstm"
    /\ lstm_model' = [layers |-> LstmLayers, compiled |-> TRUE,
                      fitted |-> FALSE, fit_rows |-> 0, fit_inputs |-> <<>>]
    /\ Bind({"lstm_model"})
    /\ Step
    /\ UNCHANGED <<reexecuted, stages, params, initial_state, t_span, t_eval,
                   initial_condition_A, initial_condition_B, ode, ds, baseline_model,
                   baseline_predictions, lstm_predictions, figure, shown, env, reached>>

\* Training cell, line 317
Cell5_LstmFit ==
    /\ pc = "c5_lstm_fit"
    /\ lstm_model' = fit(lstm_model, ReshapeSteps(X_train), y_train)
    /\ stages' = Append(stages, "train_recurrent")
    /\ Step
    /\ UNCHANGED <<reexecuted, cfg, ode, ds, baseline_model, baseline_predictions,
                   lstm_predictions, figure, shown, env, reached>>

\* Training cell, line 320
Cell5_PredictBaseline ==
    /\ pc = "c5_predict_baseline"
    /\ baseline_predictions' = predict(baseline_model, X_test)
    /\ Bind({"baseline_predictions"})
    /\ stages' = Append(stages, "predict_baseline")
    /\ Step
    /\ UNCHANGED <<reexecuted, params, initial_state, t_span, t_eval,
                   initial_condition_A, initial_condition_B, ode, ds, baseline_model,
                   lstm_model, lstm_predictions, figure, shown, env, reached>>

\* Training cell, line 321
Cell5_PredictLstm ==
    /\ pc = "c5_predict_lstm"
    /\ lstm_predictions' = predict(lstm_model, ReshapeSteps(X_test))
    /\ Bind({"lstm_predictions"})
    /\ stages' = Append(stages, "predict_recurrent")
    /\ Step
    /\ UNCHANGED <<reexecuted, params, initial_state, t_span, t_eval,
                   initial_condition_A, initial_condition_B, ode, ds, baseline_model,
                   lstm_model, baseline_predictions, figure, shown, env, reached>>

\* The panel plt.subplot(3, 2, k) of the comparison figure: the actual and the
\* predicted curve plotted into it.
Panel(k) ==
    LET d     == (k + 1) \div 2
        preds == IF k % 2 = 1 THEN baseline_predictions ELSE lstm_predictions
    IN  [actual |-> Column(y_test, d), predicted |-> Column(preds, d)]

\* Comparison cell, lines 337-394
Cell6_Plot ==
    /\ pc = "c6_plot"
    /\ figure' = [k \in 1..6 |-> Panel(k)]
    /\ shown' = shown \cup {"comparison"}
    /\ stages' = Append(stages, "compare")
    /\ Step
    /\ UNCHANGED <<reexecuted, cfg, ode, ds, baseline_model, lstm_model,
                   baseline_predictions, lstm_predictions, env, reached>>

\* The user runs the dataset cell and the cells below it once more in the
\* same session.
ReExecute ==
    /\ pc = "done"
    /\ ~reexecuted
    /\ reexecuted' = TRUE
    /\ stages' = <<>>
    /\ pc' = "c4_params"
    /\ UNCHANGED <<error, cfg, ode, ds, ml, env, reached>>

Next ==
    \/ Cell1_Params
    \/ Cell1_Def
    \/ Cell1_Plot
    \/ Cell2_Params
    \/ Cell2_Def
    \/ Cell2_IC
    \/ Cell2_Plot
    \/ Cell4_Params
    \/ Cell4_Def
    \/ Cell4_Grid
    \/ Cell4_Data
    \/ Cell4_Split
    \/ Cell5_Baseline
    \/ Cell5_BaselineFit
    \/ Cell5_Lstm
    \/ Cell5_LstmFit
    \/ Cell5_PredictBaseline
    \/ Cell5_PredictLstm
    \/ Cell6_Plot
    \/ SolverStart
    \/ SolverStep
    \/ SolverFinish
    \/ SolverFail
    \/ ReExecute

Spec == Init /\ [][Next]_vars

(***************************************************************************)
(* Properties                                                              *)
(***************************************************************************)
StagesDone == {stages[i] : i \in 1..Len(stages)}

Range(a) == {a[i] : i \in 1..Len(a)}

\* C1 (Dataset Builder): once data[:-1] and data[1:] of a trajectory data of
\* length N >= 2 have been handed to the split, there are exactly N - 1
\* examples, the input of example i is sample i and its label is sample i + 1
\* (i = 0..N-2), so the label of example i is the input of example i + 1.
C1_DatasetBuilderPairs ==
    (Len(X_all) > 0 \/ Len(y_all) > 0) =>
        /\ Len(data) >= 2
        /\ Len(X_all) = Len(data) - 1
        /\ Len(y_all) = Len(data) - 1
        /\ \A i \in 0..(Len(data) - 2) :
              /\ X_all[i + 1] = data[i + 1]
              /\ y_all[i + 1] = data[i + 2]
        /\ \A i \in 0..(Len(data) - 3) : y_all[i + 1] = X_all[i + 2]

\* The split has been handed the examples of a full-length trajectory.
C1_Witness ==
    /\ pc = "c5_baseline"
    /\ Len(data) = MaxEval
    /\ Len(X_all) = MaxEval - 1
    /\ X_all[2] # X_all[1]

\* C2 (Dataset Split): after the split every example index 0..M-1 is in
\* exactly one of ind_train and ind_test, no index occurs twice, and the four
\* subsets returned are the examples at those indices.
C2_SplitIsPartition ==
    "X_train" \in names =>
        /\ Range(ind_train) \cap Range(ind_test) = {}
        /\ Range(ind_train) \cup Range(ind_test) = 0..(Len(X_all) - 1)
        /\ Cardinality(Range(ind_train)) = Len(ind_train)
        /\ Cardinality(Range(ind_test)) = Len(ind_test)
        /\ X_train = Take(X_all, ind_train)
        /\ y_train = Take(y_all, ind_train)
        /\ X_test = Take(X_all, ind_test)
        /\ y_test = Take(y_all, ind_test)

\* A split with at least two examples on each side, not in trajectory order.
C2_Witness ==
    /\ "X_train" \in names
    /\ Len(ind_test) >= 2
    /\ Len(ind_train) >= 2
    /\ ind_test[1] > ind_test[2]

\* C3 (Split sizes): the two subsets have M examples together, the test
\* subset has ceil(0.2 * M) of them (5 * n_test >= M > 5 * (n_test - 1)); a
\* trajectory of NumEval = 1000 states gives 999 examples, split 799 / 200.
C3_SplitSizes ==
    "X_train" \in names =>
        /\ Len(X_train) + Len(X_test) = Len(X_all)
        /\ Len(y_train) = Len(X_train)
        /\ Len(y_test) = Len(X_test)
        /\ 5 * Len(X_test) >= Len(X_all)
        /\ 5 * (Len(X_test) - 1) < Len(X_all)
        /\ NTest(NumEval - 1) = 200
        /\ NTrain(NumEval - 1) = 799
        /\ (pc = "c5_baseline" =>
               Len(AllButLast([i \in 1..NumEval |-> State0])) = 999)

\* The split of the full-length trajectory's examples, whose number is no
\* multiple of 5.
C3_Witness ==
    /\ "X_train" \in names
    /\ Len(X_all) = MaxEval - 1
    /\ Len(X_all) % 5 # 0
    /\ Len(X_test) = 2

\* C4 (Split determinism): when the split has run a second time on the same
\* examples, it returned what it returned the first time: the same index
\* arrays and the same four subsets, in the same order.
C4_SplitDeterministic ==
    (reexecuted /\ "build" \in StagesDone
        /\ prev_split.X_all = X_all /\ prev_split.y_all = y_all) =>
        prev_split = CurrentSplit

\* The second execution of the split has returned, on examples it permuted.
C4_Witness ==
    /\ reexecuted
    /\ "build" \in StagesDone
    /\ prev_split.X_all = X_all
    /\ Len(ind_train) >= 2
    /\ ind_train[1] > ind_train[2]

\* The dataset cell's solve_ivp call of the current run returned without
\* success.
IntegrationFailed == "integrate" \in StagesDone /\ ~solution.success

\* C5 (Integration failure is terminal): after a dataset solve that ended
\* unsuccessfully the run builds no dataset, trains no model, predicts and
\* compares nothing.
C5_FailedSolveIsTerminal ==
    IntegrationFailed =>
        StagesDone \cap {"build", "train_baseline", "train_recurrent",
                         "predict_baseline", "predict_recurrent", "compare"} = {}

\* C6 (Comparator alignment): once both models have predicted, row j of
\* baseline_predictions and of lstm_predictions is the model's output for
\* X_test[j], a row of 3 components, y_test[j] is the trajectory sample after
\* X_test[j], there is one row per test example (ceil(0.2 * M) rows), and each
\* panel of the comparison figure pairs column d of y_test with column d of
\* one model's predictions.
C6_ComparatorAligned ==
    "predict_recurrent" \in StagesDone =>
        /\ Len(y_test) = Len(X_test)
        /\ Len(baseline_predictions) = Len(X_test)
        /\ Len(lstm_predictions) = Len(X_test)
        /\ Len(X_test) = NTest(Len(data) - 1)
        /\ \A j \in 1..Len(X_test) :
              /\ Len(baseline_predictions[j]) = 3
              /\ Len(lstm_predictions[j]) = 3
              /\ \A k \in 1..3 :
                    /\ baseline_predictions[j][k] =
                          [model |-> "Dense", unit |-> k, input |-> X_test[j]]
                    /\ lstm_predictions[j][k] =
                          [model |-> "LSTM", unit |-> k, input |-> <<X_test[j]>>]
              /\ X_test[j] = data[ind_test[j] + 1]
              /\ y_test[j] = data[ind_test[j] + 2]
        /\ "compare" \in StagesDone =>
              \A d \in 1..3 :
                 /\ Len(figure[2 * d - 1].actual) = Len(X_test)
                 /\ Len(figure[2 * d].actual) = Len(X_test)
                 /\ \A j \in 1..Len(X_test) :
                       /\ figure[2 * d - 1].actual[j] = y_test[j][d]
                       /\ figure[2 * d - 1].predicted[j] = baseline_predictions[j][d]
                       /\ figure[2 * d].actual[j] = y_test[j][d]
                       /\ figure[2 * d].predicted[j] = lstm_predictions[j][d]

\* The comparison of two test examples with different inputs has been drawn.
C6_Witness ==
    /\ "compare" \in StagesDone
    /\ Len(X_test) = 2
    /\ X_test[1] # X_test[2]
    /\ Len(lstm_predictions) = 2

\* The order of the pipeline's stages.
PipelineOrder ==
    << "integrate", "build", "train_baseline", "train_recurrent",
       "predict_baseline", "predict_recurrent", "compare" >>

\* C7 (Pipeline ordering): the stages a run has completed are always an
\* initial part of integrate, build dataset, train baseline, train recurrent,
\* predict (baseline, recurrent), compare; both models are trained when the
\* first prediction has been made, both prediction arrays exist when the
\* comparison has been made, and a run that ends has completed them all.
C7_PipelineOrder ==
    /\ Len(stages) <= Len(PipelineOrder)
    /\ \A i \in 1..Len(stages) : stages[i] = PipelineOrder[i]
    /\ "predict_baseline" \in StagesDone =>
          baseline_model.fitted /\ lstm_model.fitted
    /\ "compare" \in StagesDone =>
          /\ Len(baseline_predictions) = Len(X_test)
          /\ Len(lstm_predictions) = Len(X_test)
          /\ {"baseline_predictions", "lstm_predictions"} \subseteq names
    /\ pc = "done" => stages = PipelineOrder

\* A whole run has ended.
C7_Witness == pc = "done" /\ stages = PipelineOrder /\ reexecuted

\* C8 (Trajectory shape): data has one state per evaluation time of t_eval
\* and its first state is the initial state.
C8_TrajectoryShape ==
    "data" \in names =>
        /\ Len(data) = Len(t_eval)
        /\ data[1] = initial_state

\* The derivative of the Lorenz system at state for the parameters p.
LorenzDerivative(state, p) ==
    << RMul(p.sigma, RSub(state[2], state[1])),
       RSub(RMul(state[1], RSub(p.rho, state[3])), state[2]),
       RSub(RMul(state[1], state[2]), RMul(p.beta, state[3])) >>

\* C9 (Vector field result): every evaluation of lorenz_system and of lorenz
\* returned the three components sigma*(y - x), x*(rho - z) - y,
\* x*y - beta*z, in that order, for the state and the parameters of the call
\* (lorenz: the session's sigma, beta, rho when it was called); evaluations
\* at the same state and parameters returned the same whatever t was.
C9_VectorFieldResult ==
    /\ \A e \in evalLog :
          /\ Len(e.ret) = 3
          /\ e.ret = LorenzDerivative(e.state,
                        IF e.fn = "lorenz" THEN e.before ELSE e.args)
    /\ \A e1, e2 \in evalLog :
          (e1.state = e2.state /\ e1.args = e2.args) => e1.ret = e2.ret

\* Both functions have been evaluated, lorenz twice at one state at two times.
C9_Witness ==
    /\ \E e \in evalLog : e.fn = "lorenz_system"
    /\ \E e1, e2 \in evalLog :
          /\ e1.fn = "lorenz" /\ e2.fn = "lorenz"
          /\ e1.state = e2.state /\ e1.t # e2.t
          /\ e1.ret[2] # R(0)

\* C10 (Vector field purity): no evaluation changed sigma, beta or rho of the
\* session; two evaluations of lorenz_system with the same t, state and
\* parameters, and two evaluations of lorenz with the same t and state,
\* returned the same.
C10_VectorFieldPure ==
    /\ \A e \in evalLog : e.after = e.before
    /\ \A e1, e2 \in evalLog :
          (/\ e1.fn = e2.fn /\ e1.t = e2.t /\ e1.state = e2.state
           /\ (e1.fn = "lorenz_system" => e1.args = e2.args)) =>
              e1.ret = e2.ret

\* The dataset solve has run twice, calling lorenz again at the same times
\* and states, after lorenz_system ran under other values of beta.
C10_Witness ==
    /\ reexecuted
    /\ "integrate" \in StagesDone
    /\ solution.success
    /\ \E e \in evalLog : e.fn = "lorenz" /\ e.t # R(0)
    /\ \E e \in evalLog : e.fn = "lorenz_system" /\ e.args.beta # params.beta

\* The dataset cell's solve_ivp call is integrating, or has evaluated lorenz,
\* under this configuration: the run starts at (0, 1, 1.05), spans [0, 100],
\* its evaluation times are the MaxEval points of the grid, evenly spaced from
\* 0 to 100, and sigma, beta, rho are p at every evaluation of the run.
RunConfigured(p) ==
    /\ (pc = "c4_solve" /\ solver.phase = "running") =>
          /\ t_span = <<R(0), R(100)>>
          /\ Len(solver.grid) = MaxEval
          /\ solver.grid[1] = R(0)
          /\ solver.grid[MaxEval] = R(100)
          /\ \A i \in 1..(MaxEval - 2) :
                RSub(solver.grid[i + 1], solver.grid[i]) =
                    RSub(solver.grid[i + 2], solver.grid[i + 1])
          /\ initial_state = <<R(0), R(1), Frac(105, 100)>>
          /\ (Len(solver.cols[1]) = 0 => solver.y = initial_state)
          /\ params = p
    /\ \A e \in evalLog :
          e.fn = "lorenz" =>
              /\ e.before = p
              /\ e.after = p
              /\ (e.t = R(0) => e.state = <<R(0), R(1), Frac(105, 100)>>)

\* C11 (Run configuration): the trajectory that feeds the dataset builder is
\* integrated from (0, 1, 1.05) with sigma = 10, beta = 8/3, rho = 28 over
\* [0, 100] at the grid's evenly spaced evaluation times, and sigma, beta, rho
\* are the same at every evaluation of the vector field within that run.
C11_RunConfiguration ==
    RunConfigured([sigma |-> R(10), beta |-> Frac(8, 3), rho |-> R(28)])

\* a[::-1]
Reversed(a) == [j \in 1..Len(a) |-> a[Len(a) + 1 - j]]

====
